---- MODULE Spec2Model ----
(***************************************************************************)
(* Model of VideoIntelligenceServiceClient (v1p2beta1), the generated      *)
(* client of src/unnamed/part_000.  The client owns one service call,      *)
(* annotateVideo(request, options, callback), which normalises its         *)
(* arguments and forwards them to this._innerApiCalls.annotateVideo, the   *)
(* function google-gax's createApiCall returned to the constructor.        *)
(*                                                                         *)
(* JavaScript values are modelled as strings: the two absent values, the   *)
(* object literal {} the method creates, caller-supplied objects and       *)
(* caller-supplied functions.  The inner API call belongs to google-gax;   *)
(* it is the environment: it records the arguments it receives and         *)
(* returns a value of its own choosing.                                    *)
(***************************************************************************)
EXTENDS Naturals, Sequences, FiniteSets

\* Number of annotateVideo calls a behaviour makes.
MaxCalls == 3

\* Number of times google-gax invokes the function innerCallPromise resolved to.
MaxInvocations == 2

\* ---- JavaScript values ----

Undefined == "undefined"

Null == "null"

\* The value of the object literal {} of lines 375, 377 and 378.
EmptyObject == "{}"

\* Objects a caller passes as request (JSDoc, line 245).
RequestObjects == {"request1", "request2"}

\* Objects a caller passes as options (JSDoc, line 281).
OptionsObjects == {"options1"}

\* Functions a caller passes as callback, or as options in the two-argument
\* form annotateVideo(request, callback) (JSDoc, line 284).
Functions == {"fn1", "fn2"}

\* What the inner API call returns: the promises of line 288.
Promises == {"promise1", "promise2"}

\* The arguments a caller can supply: a value of the documented type, or
\* nothing (undefined, also what an omitted argument reads as) or null.
RequestArgs == {Undefined, Null} \cup RequestObjects

OptionsArgs == {Undefined, Null} \cup OptionsObjects \cup Functions

CallbackArgs == {Undefined, Null} \cup Functions

\* JavaScript truthiness, as `||` tests it: undefined and null are falsy,
\* every object and function is truthy.
Truthy(v) == v \notin {Undefined, Null}

\* `v instanceof Function`.
InstanceOfFunction(v) == v \in Functions

\* `a || b`.
Or(a, b) == IF Truthy(a) THEN a ELSE b

\* ---- state ----

VARIABLES
  numCalls,     \* annotateVideo calls made so far
  lastCall,     \* <<request, options, callback>> of the latest call, as given
  numInner,     \* calls _innerApiCalls.annotateVideo has received so far
  lastInner,    \* <<request, options, callback>> it received latest
  innerResult,  \* what it returned latest
  returned,     \* what the latest annotateVideo call returned
  ctor,             \* the constructor: "running" (at line 164) or "returned"
  stubPromise,      \* videoIntelligenceServiceStub, the promise of createStub
  innerCallPromise, \* the promise handed to createApiCall (line 189)
  numInvocations,   \* invocations of the function innerCallPromise resolved to
  lastArgs,         \* the arguments of the latest invocation
  numStubCalls,     \* calls stub.annotateVideo has received
  lastStubCall,     \* <<stub, method, arguments>> of the latest of them
  numThrows,        \* invocations that ended in a throw
  lastOutcome       \* how the latest invocation ended

callVars == <<numCalls, lastCall, numInner, lastInner, innerResult, returned>>

stubVars == <<ctor, stubPromise, innerCallPromise, numInvocations, lastArgs,
              numStubCalls, lastStubCall, numThrows, lastOutcome>>

vars == <<numCalls, lastCall, numInner, lastInner, innerResult, returned,
          ctor, stubPromise, innerCallPromise, numInvocations, lastArgs,
          numStubCalls, lastStubCall, numThrows, lastOutcome>>

\* ---- the service stub and innerCallPromise, lines 164-193 ----

\* The stubs createStub can resolve to, and the errors it can reject with.
Stubs == {"stub1", "stub2"}

Errors == {"err1", "err2"}

\* What stub.annotateVideo returns to its caller.
StubResults == {"call1", "call2"}

\* Line 178: the one method name the loop of line 179 iterates over.
videoIntelligenceServiceStubMethods == <<"annotateVideo">>

\* A promise: pending, or fulfilled with a value, or rejected with a reason.
Pending == [state |-> "pending", value |-> "none"]

Fulfilled(v) == [state |-> "fulfilled", value |-> v]

Rejected(e) == [state |-> "rejected", value |-> e]

\* The arrow function of lines 181-183, closed over stub and methodName.
CallStub(stub, methodName) ==
  [kind |-> "callStub", stub |-> stub, method |-> methodName, err |-> "none"]

\* The arrow function of lines 184-186, closed over err.
ThrowErr(err) ==
  [kind |-> "throwErr", stub |-> "none", method |-> "none", err |-> err]

\* A variant of the then() of line 180 without its second handler: the
\* rejection of the stub promise passes through to innerCallPromise.
ThenNoRejectionHandler(promise, methodName) ==
  IF promise.state = "fulfilled"
  THEN Fulfilled(CallStub(promise.value, methodName))
  ELSE Rejected(promise.value)

\* Lines 180-187: what videoIntelligenceServiceStub.then(onFulfilled,
\* onRejected) settles to once the stub promise has settled.  Both handlers
\* return a function, so the derived promise is fulfilled either way.
Then(promise, methodName) ==
  IF promise.state = "fulfilled"
  THEN Fulfilled(CallStub(promise.value, methodName))
  ELSE Fulfilled(ThrowErr(promise.value))

\* The argument lists google-gax invokes the function with.
ArgLists ==
  {<<>>} \cup
  ((RequestObjects \cup {EmptyObject}) \X (OptionsObjects \cup {EmptyObject})
     \X CallbackArgs)

\* How an invocation ends: the value returned, or the error thrown.
Returns(v) == [threw |-> FALSE, value |-> v]

Throws(e) == [threw |-> TRUE, value |-> e]

\* ---- annotateVideo, lines 372-381 ----

\* A variant of the argument normalisation that moves a function given as
\* options into the callback slot without testing `callback === undefined`.
annotateVideoArgsNoCallbackTest(request, options, callback) ==
  LET swap      == InstanceOfFunction(options)
      callback1 == IF swap THEN options ELSE callback
      options1  == IF swap THEN EmptyObject ELSE options
  IN <<Or(request, EmptyObject), Or(options1, EmptyObject), callback1>>

\* Lines 373-378: the arguments as they stand when line 380 runs.
annotateVideoArgs(request, options, callback) ==
  LET swap      == InstanceOfFunction(options) /\ callback = Undefined
      callback1 == IF swap THEN options ELSE callback
      options1  == IF swap THEN EmptyObject ELSE options
  IN <<Or(request, EmptyObject), Or(options1, EmptyObject), callback1>>

\* One whole call: normalise, call the inner API call (which returns
\* `result`), return what it returned.
annotateVideo(request, options, callback, result) ==
  /\ numCalls < MaxCalls
  /\ numCalls' = numCalls + 1
  /\ lastCall' = <<request, options, callback>>
  /\ numInner' = numInner + 1
  /\ lastInner' = annotateVideoArgs(request, options, callback)
  /\ innerResult' = result
  /\ returned' = result
  /\ UNCHANGED stubVars

\* After construction: no call made yet.
Init ==
  /\ numCalls = 0
  /\ lastCall = <<>>
  /\ numInner = 0
  /\ lastInner = <<>>
  /\ innerResult = Undefined
  /\ returned = Undefined
  /\ ctor = "returned"
  /\ stubPromise = Pending
  /\ innerCallPromise = Pending
  /\ numInvocations = 0
  /\ lastArgs = <<>>
  /\ numStubCalls = 0
  /\ lastStubCall = <<>>
  /\ numThrows = 0
  /\ lastOutcome = Returns(Undefined)

Next ==
  \E request \in RequestArgs, options \in OptionsArgs,
     callback \in CallbackArgs, result \in Promises :
       annotateVideo(request, options, callback, result)

Spec == Init /\ [][Next]_vars

\* ---- construction and stub creation, lines 164-193 ----

\* Lines 166-193: createStub hands back a promise, then() derives
\* innerCallPromise from it, createApiCall receives it, and the constructor
\* returns.  Neither promise has run a handler yet: handlers run as later jobs.
Constructor ==
  /\ ctor = "running"
  /\ ctor' = "returned"
  /\ stubPromise' = Pending
  /\ innerCallPromise' = Pending
  /\ UNCHANGED <<numInvocations, lastArgs, numStubCalls, lastStubCall,
                 numThrows, lastOutcome>>
  /\ UNCHANGED callVars

\* createStub succeeds: the stub promise is fulfilled with the stub.
StubResolves(stub) ==
  /\ ctor = "returned"
  /\ stubPromise = Pending
  /\ stubPromise' = Fulfilled(stub)
  /\ UNCHANGED <<ctor, innerCallPromise, numInvocations, lastArgs,
                 numStubCalls, lastStubCall, numThrows, lastOutcome>>
  /\ UNCHANGED callVars

\* createStub fails: the stub promise is rejected with err.
StubRejects(err) ==
  /\ ctor = "returned"
  /\ stubPromise = Pending
  /\ stubPromise' = Rejected(err)
  /\ UNCHANGED <<ctor, innerCallPromise, numInvocations, lastArgs,
                 numStubCalls, lastStubCall, numThrows, lastOutcome>>
  /\ UNCHANGED callVars

\* The job of the then() of line 180 runs and settles innerCallPromise.
ThenJob ==
  /\ stubPromise.state # "pending"
  /\ innerCallPromise = Pending
  /\ innerCallPromise' = Then(stubPromise, videoIntelligenceServiceStubMethods[1])
  /\ UNCHANGED <<ctor, stubPromise, numInvocations, lastArgs,
                 numStubCalls, lastStubCall, numThrows, lastOutcome>>
  /\ UNCHANGED callVars

\* google-gax invokes the function innerCallPromise resolved to, with args.
\* Lines 181-183: the call goes to stub[methodName] with the same arguments
\* and its result is returned.  Lines 184-186: err is thrown.
InvokeInnerCall(args, result) ==
  /\ innerCallPromise.state = "fulfilled"
  /\ numInvocations < MaxInvocations
  /\ numInvocations' = numInvocations + 1
  /\ lastArgs' = args
  /\ LET f == innerCallPromise.value
     IN IF f.kind = "callStub"
        THEN /\ numStubCalls' = numStubCalls + 1
             /\ lastStubCall' = <<f.stub, f.method, args>>
             /\ lastOutcome' = Returns(result)
             /\ UNCHANGED numThrows
        ELSE /\ numThrows' = numThrows + 1
             /\ lastOutcome' = Throws(f.err)
             /\ UNCHANGED <<numStubCalls, lastStubCall>>
  /\ UNCHANGED <<ctor, stubPromise, innerCallPromise>>
  /\ UNCHANGED callVars

\* The constructor is at line 164; no service call has been made.
InitStub ==
  /\ numCalls = 0
  /\ lastCall = <<>>
  /\ numInner = 0
  /\ lastInner = <<>>
  /\ innerResult = Undefined
  /\ returned = Undefined
  /\ ctor = "running"
  /\ stubPromise = Pending
  /\ innerCallPromise = Pending
  /\ numInvocations = 0
  /\ lastArgs = <<>>
  /\ numStubCalls = 0
  /\ lastStubCall = <<>>
  /\ numThrows = 0
  /\ lastOutcome = Returns(Undefined)

NextStub ==
  \/ Constructor
  \/ \E stub \in Stubs : StubResolves(stub)
  \/ \E err \in Errors : StubRejects(err)
  \/ ThenJob
  \/ \E args \in ArgLists, result \in StubResults : InvokeInnerCall(args, result)

SpecStub == InitStub /\ [][NextStub]_vars

\* ---- claims ----

\* A missing argument: not supplied, or supplied as null.
Missing(v) == v \in {Undefined, Null}

\* C1: every annotateVideo call has been forwarded exactly once to the inner
\* API call and returned its result; the inner call received the callback
\* and {} when options was a function and callback undefined, {} for a
\* missing request, {} for a missing options, and otherwise the caller's
\* request, options and callback unchanged.
C1_ForwardsOnceNormalised ==
  /\ numInner = numCalls
  /\ numCalls > 0 =>
       LET request  == lastCall[1]
           options  == lastCall[2]
           callback == lastCall[3]
           twoArgForm == options \in Functions /\ callback = Undefined
       IN /\ returned = innerResult
          /\ returned \in Promises
          /\ lastInner[1] = (IF Missing(request) THEN EmptyObject ELSE request)
          /\ lastInner[2] = (IF twoArgForm \/ Missing(options)
                             THEN EmptyObject ELSE options)
          /\ lastInner[3] = (IF twoArgForm THEN options ELSE callback)

\* C1 witness: a call in the two-argument form, with the request missing,
\* has been forwarded with the function in the callback slot.
C1_Witness ==
  /\ numCalls > 0
  /\ numInner = numCalls
  /\ lastCall[1] = Undefined
  /\ lastCall[2] \in Functions
  /\ lastCall[3] = Undefined
  /\ lastInner = <<EmptyObject, EmptyObject, lastCall[2]>>
  /\ returned = innerResult

\* C11: a failure to create the stub never fails the constructor and is
\* never lost.  The stub promise settles only after the constructor has
\* returned; innerCallPromise is never rejected and is fulfilled with a
\* function; once the stub promise resolved with a stub, every invocation of
\* that function has called that stub's annotateVideo with the invocation's
\* arguments; once it rejected with err, every invocation has thrown that
\* same err and none has reached a stub.
C11_StubFailureSurfacesAtCall ==
  /\ stubPromise.state # "pending" => ctor = "returned"
  /\ innerCallPromise.state # "rejected"
  /\ innerCallPromise.state = "fulfilled" =>
        innerCallPromise.value.kind \in {"callStub", "throwErr"}
  /\ numInvocations > 0 =>
        /\ stubPromise.state = "fulfilled" =>
              /\ numStubCalls = numInvocations
              /\ numThrows = 0
              /\ lastStubCall = <<stubPromise.value, "annotateVideo", lastArgs>>
              /\ ~lastOutcome.threw
        /\ stubPromise.state = "rejected" =>
              /\ numThrows = numInvocations
              /\ numStubCalls = 0
              /\ lastOutcome = Throws(stubPromise.value)

\* C11 witness: the stub promise rejected, and the function innerCallPromise
\* resolved to has been invoked more than once and threw the error each time.
C11_Witness ==
  /\ ctor = "returned"
  /\ stubPromise.state = "rejected"
  /\ innerCallPromise.state = "fulfilled"
  /\ numInvocations > 1
  /\ numThrows = numInvocations
  /\ lastArgs # <<>>
  /\ lastOutcome = Throws(stubPromise.value)

====
